---------------------------- MODULE Spec2Model ----------------------------
(***************************************************************************)
(* Model of src/src/renderer.py: the TableBuilder line buffer and the      *)
(* Renderer that drives it.                                                 *)
(*                                                                          *)
(* A Python str is modelled as a sequence of characters, a character as a  *)
(* one-element token.  The module is plain ASCII, so the box-drawing       *)
(* glyphs and the Cyrillic letters of the source are written as named      *)
(* tokens, one token per source character:                                 *)
(*   U+2560 "MID_L"   U+2563 "MID_R"   U+2550 "HBAR"   U+2551 "VBAR"       *)
(*   U+2554 "TOP_L"   U+2557 "TOP_R"   U+255A "BOT_L"  U+255D "BOT_R"      *)
(***************************************************************************)
EXTENDS Integers, Sequences, FiniteSets, TLC

VARIABLES
    table_size,     \* TableBuilder.table_size
    table_lines,    \* TableBuilder.table_lines
    last_op,        \* name of the last TableBuilder call ("new" after __init__)
    last_args,      \* the texts given to the last add_section / add_header
    prev_lines,     \* table_lines as it was before the last call
    returned,       \* tuple returned by the last call when it was get_table
    prev_returned,  \* tuple returned by the get_table call right before it,
                    \* when no add_section / add_header came in between
    n_gets,         \* "none", "one" or "many" get_table calls so far
    n_adds,         \* number of add_section / add_header calls so far
    location_info,  \* Renderer.location_info, the record given to __init__
    now_utc,        \* the clock: minutes since 01.11.2026 00:00 UTC
    time_out,       \* _format_time: its result and its locals at return
    rendered        \* the tuple render() returned

builder_vars == <<table_size, table_lines, last_op, last_args, prev_lines,
                  returned, prev_returned, n_gets, n_adds>>

renderer_vars == <<location_info, now_utc, time_out, rendered>>

vars == <<builder_vars, renderer_vars>>

----------------------------------------------------------------------------
(* Bounds and input sets of the TableBuilder specification *)

MaxCalls == 3

MinTableSize == 20

MaxTableSize == 21

TableSizes == MinTableSize..MaxTableSize

----------------------------------------------------------------------------
(* Strings *)

Rep(c, n) == [i \in 1..n |-> c]

Word(c, n) == Rep(c, n)

IsBlank(s) == \A i \in 1..Len(s) : s[i] = " "

RECURSIVE Join(_)
Join(ss) == IF ss = <<>> THEN <<>> ELSE Head(ss) \o Join(Tail(ss))

Min(a, b) == IF a < b THEN a ELSE b

Last(s) == s[Len(s)]

Front(s) == SubSeq(s, 1, Len(s) - 1)

(* str.replace(old, new) for one-character old and new *)
Replace(s, old, new) == [i \in 1..Len(s) |-> IF s[i] = old THEN new ELSE s[i]]

----------------------------------------------------------------------------
(* textwrap.wrap(text, width) with the TextWrapper defaults the source      *)
(* uses: drop_whitespace, break_long_words, no indent, no max_lines.  The   *)
(* texts of the model are letters and spaces, for which the chunks of       *)
(* TextWrapper._split are the maximal runs of spaces and of non-spaces.     *)

RECURSIVE RunEnd(_, _)
RunEnd(text, i) ==
    IF i < Len(text) /\ (text[i + 1] = " ") = (text[1] = " ")
    THEN RunEnd(text, i + 1) ELSE i

RECURSIVE SplitChunks(_)
SplitChunks(text) ==
    IF text = <<>> THEN <<>>
    ELSE LET e == RunEnd(text, 1)
         IN  <<SubSeq(text, 1, e)>> \o SplitChunks(SubSeq(text, e + 1, Len(text)))

(* the inner "while chunks" loop: chunks that fit go to the current line *)
RECURSIVE FillLine(_, _, _, _)
FillLine(chunks, cur_line, cur_len, width) ==
    IF chunks # <<>> /\ cur_len + Len(Head(chunks)) <= width
    THEN FillLine(Tail(chunks), Append(cur_line, Head(chunks)),
                  cur_len + Len(Head(chunks)), width)
    ELSE [cur_line |-> cur_line, cur_len |-> cur_len, chunks |-> chunks]

(* TextWrapper._handle_long_word with break_long_words = True *)
HandleLongWord(f, width) ==
    LET space_left == IF width < 1 THEN 1 ELSE width - f.cur_len
        chunk == Head(f.chunks)
        end == Min(space_left, Len(chunk))
    IN  [cur_line |-> Append(f.cur_line, SubSeq(chunk, 1, end)),
         chunks |-> <<SubSeq(chunk, end + 1, Len(chunk))>> \o Tail(f.chunks)]

RECURSIVE WrapChunks(_, _, _)
WrapChunks(chunks, lines, width) ==
    IF chunks = <<>> THEN lines
    ELSE LET start == IF IsBlank(Head(chunks)) /\ lines # <<>>
                      THEN Tail(chunks) ELSE chunks
             f == FillLine(start, <<>>, 0, width)
             g == IF f.chunks # <<>> /\ Len(Head(f.chunks)) > width
                  THEN HandleLongWord(f, width)
                  ELSE [cur_line |-> f.cur_line, chunks |-> f.chunks]
             cur_line == IF g.cur_line # <<>> /\ IsBlank(Last(g.cur_line))
                         THEN Front(g.cur_line) ELSE g.cur_line
         IN  WrapChunks(g.chunks,
                        IF cur_line # <<>> THEN Append(lines, Join(cur_line))
                                           ELSE lines,
                        width)

wrap(text, width) == WrapChunks(SplitChunks(text), <<>>, width)

----------------------------------------------------------------------------
(* TableBuilder *)

border_tline(size) == <<"MID_L">> \o Rep("HBAR", size - 2) \o <<"MID_R">>

(* faulty variant: the odd space of the pad goes to the left *)
centered_tline_extra_left(line, size) ==
    LET remaining_size == size - Len(line) - 2
    IN  <<"VBAR">> \o Rep(" ", (remaining_size \div 2) + (remaining_size % 2)) \o line
        \o Rep(" ", (remaining_size \div 2)) \o <<"VBAR">>

centered_tline(line, size) ==
    LET remaining_size == size - Len(line) - 2
    IN  <<"VBAR">> \o Rep(" ", (remaining_size \div 2)) \o line
        \o Rep(" ", (remaining_size \div 2) + (remaining_size % 2)) \o <<"VBAR">>

(* faulty variant: the right margin space is left out *)
left_tline_no_margin(line, size) ==
    <<"VBAR", " ">> \o line \o Rep(" ", size - 4 - Len(line)) \o <<"VBAR">>

left_tline(line, size) ==
    <<"VBAR", " ">> \o line \o Rep(" ", size - 4 - Len(line)) \o <<" ", "VBAR">>

(* faulty variant: only the first wrapped line is appended *)
content_tlines_first_only(content, center, size) ==
    LET content_lines == wrap(content, size - 4)
    IN  [i \in 1..Min(1, Len(content_lines)) |->
            IF center THEN centered_tline(content_lines[i], size)
                      ELSE left_tline(content_lines[i], size)]

(* the lines _add_content_tline appends for one content string *)
content_tlines(content, center, size) ==
    LET content_lines == wrap(content, size - 4)
    IN  [i \in 1..Len(content_lines) |->
            IF center THEN centered_tline(content_lines[i], size)
                      ELSE left_tline(content_lines[i], size)]

RECURSIVE section_tlines(_, _)
section_tlines(lines, size) ==
    IF lines = <<>> THEN <<>>
    ELSE content_tlines(Head(lines), FALSE, size) \o section_tlines(Tail(lines), size)

opened(buf, size) == IF Len(buf) = 0 THEN <<border_tline(size)>> ELSE buf

(* faulty variant: the opening border is added whether or not the buffer is empty *)
add_section_always_opens(buf, lines, size) ==
    buf \o <<border_tline(size)>> \o section_tlines(lines, size)
    \o <<border_tline(size)>>

add_section(buf, lines, size) ==
    opened(buf, size) \o section_tlines(lines, size) \o <<border_tline(size)>>

add_header(buf, text, size) ==
    opened(buf, size) \o content_tlines(text, TRUE, size) \o <<border_tline(size)>>

(* faulty variant: the last line keeps its interior border characters *)
get_table_first_only(buf) ==
    [buf EXCEPT ![1] = Replace(Replace(@, "MID_L", "TOP_L"), "MID_R", "TOP_R")]

(* faulty variant: the table is closed by appending a close-corner line *)
get_table_appends_close(buf) ==
    [buf EXCEPT ![1] = Replace(Replace(@, "MID_L", "TOP_L"), "MID_R", "TOP_R")]
    \o <<Replace(Replace(border_tline(Len(buf[1])), "MID_L", "BOT_L"), "MID_R", "BOT_R")>>

(* the buffer after get_table; the tuple it returns is a copy of it *)
get_table(buf) ==
    LET b1 == [buf EXCEPT ![1] = Replace(Replace(@, "MID_L", "TOP_L"), "MID_R", "TOP_R")]
    IN  [b1 EXCEPT ![Len(b1)] = Replace(Replace(@, "MID_L", "BOT_L"), "MID_R", "BOT_R")]

----------------------------------------------------------------------------
(* Number formatting and parsing *)

Abs(n) == IF n < 0 THEN -n ELSE n

DigitChars == <<"0", "1", "2", "3", "4", "5", "6", "7", "8", "9">>

(* str(n) for n >= 0 *)
RECURSIVE Digits(_)
Digits(n) ==
    IF n < 10 THEN <<DigitChars[n + 1]>>
    ELSE Append(Digits(n \div 10), DigitChars[(n % 10) + 1])

(* "%02d" % n for n >= 0 *)
Fmt02(n) == IF n < 10 THEN <<"0">> \o Digits(n) ELSE Digits(n)

DigitValue(c) == CHOOSE d \in 0..9 : DigitChars[d + 1] = c

RECURSIVE ParseDigits(_)
ParseDigits(s) ==
    IF s = <<>> THEN 0 ELSE 10 * ParseDigits(Front(s)) + DigitValue(Last(s))

(* int(s) for an optional sign followed by digits *)
ParseInt(s) ==
    IF Head(s) = "-" THEN -ParseDigits(Tail(s))
    ELSE IF Head(s) = "+" THEN ParseDigits(Tail(s))
    ELSE ParseDigits(s)

(* "{:,}".format(n).replace(",", ".") for n >= 0 *)
RECURSIVE GroupThousands(_)
GroupThousands(d) ==
    IF Len(d) <= 3 THEN d
    ELSE GroupThousands(SubSeq(d, 1, Len(d) - 3)) \o <<".">>
         \o SubSeq(d, Len(d) - 2, Len(d))

format_population(info) == GroupThousands(Digits(info.population))

(* Decimal(rates).quantize(Decimal('.01'), ROUND_HALF_UP) for a rate >= 0   *)
(* given in thousandths                                                     *)
quantize_rate(milli) ==
    LET cents == (milli + 5) \div 10
    IN  Digits(cents \div 100) \o <<".">> \o Fmt02(cents % 100)

----------------------------------------------------------------------------
(* Renderer._format_time *)

NoResult == [path |-> "none"]

(* strftime("%d.%m.%Y %H:%M") of the clock shifted by offset minutes; the   *)
(* clocks of the model stay inside November 2026                            *)
strftime(now, offset) ==
    LET local == now + offset
    IN  Fmt02((local \div 1440) + 1) \o <<".", "1", "1", ".", "2", "0", "2", "6", " ">>
        \o Fmt02((local % 1440) \div 60) \o <<":">> \o Fmt02(local % 60)

(* the try branch: ZoneInfo(region/capital) found, zone_offset in seconds *)
format_time_zone(zone_offset, now) ==
    LET days == zone_offset \div 86400
        secs == zone_offset % 86400
        seconds == days * 86400 + secs
        hours == seconds \div 3600
        minutes == (seconds \div 60) - hours * 60
        zone_utc_string ==
            <<"U", "T", "C">> \o <<IF hours < 0 THEN "-" ELSE "+">>
            \o Fmt02(Abs(hours)) \o <<":">> \o Fmt02(Abs(minutes))
    IN  [path |-> "zone",
         zone_utc_string |-> zone_utc_string,
         utcoffset |-> zone_offset \div 60,
         text |-> strftime(now, zone_offset \div 60)
                  \o <<" ", "(">> \o zone_utc_string \o <<")">>]

(* the except ZoneInfoNotFoundError branch *)
format_time_fallback(timezones, now) ==
    LET zone_utc_string == timezones[1]
        hours == ParseInt(SubSeq(zone_utc_string, 4, 6))
        minutes == ParseInt(SubSeq(zone_utc_string, 8, 9))
        utcoffset == hours * 60 + (IF hours > 0 THEN minutes ELSE -minutes)
    IN  [path |-> "fallback",
         zone_utc_string |-> zone_utc_string,
         utcoffset |-> utcoffset,
         text |-> strftime(now, utcoffset)
                  \o <<" ", "(">> \o zone_utc_string \o <<")">>]

format_time(info, now) ==
    IF info.zone_found THEN format_time_zone(info.zone_offset, now)
    ELSE format_time_fallback(info.timezones, now)

----------------------------------------------------------------------------
(* Renderer.render.  The Cyrillic texts of the source, one token per       *)
(* character, transliterated.  In location_info, area = <<>> stands for     *)
(* None (str(area) is never empty), zone_found tells whether ZoneInfo knows *)
(* region/capital and zone_offset is that zone's utcoffset in seconds.      *)

DefaultTableSize == 120

HdrCountry == <<"S", "T", "R", "A", "N", "A">>

HdrLanguages == <<"YA", "Z", "Y", "K", "I">>

HdrCurrencies == <<"V", "A", "L", "YU", "T", "Y">>

HdrWeather == <<"P", "O", "G", "O", "D", "A">>

HdrNews == <<"N", "O", "V", "O", "S", "T", "I">>

LblName == <<"N", "a", "z", "v", "a", "n", "i", "e", ":", " ">>

LblCapital == <<"S", "t", "o", "l", "i", "ts", "a", ":", " ">>

LblTime == <<"V", "r", "e", "m", "ya", " ", "v", " ", "s", "t", "o", "l", "i", "ts", "e", ":", " ">>

LblPopulation == <<"N", "a", "s", "e", "l", "e", "n", "i", "e", " ", "s", "t", "r", "a", "n", "y", ":", " ">>

SfxPopulation == <<" ", "ch", "e", "l", ".">>

LblSubregion == <<"R", "e", "g", "i", "o", "n", ":", " ">>

LblArea == <<"P", "l", "o", "sch", "a", "d", "soft", ":", " ">>

SfxArea == <<" ", "k", "m", "2">>

SfxRate == <<" ", "r", "u", "b", ".">>

LblTemp == <<"T", "e", "m", "p", "e", "r", "a", "t", "u", "r", "a", ":", " ">>

SfxTemp == <<" ", "deg", "C">>

LblWind == <<"S", "k", "o", "r", "o", "s", "t", "soft", " ", "v", "e", "t", "r", "a", ":", " ">>

SfxWind == <<" ", "m", "/", "s">>

LblVisibility == <<"V", "i", "d", "i", "m", "o", "s", "t", "soft", ":", " ">>

SfxVisibility == <<" ", "m">>

LblDescription == <<"O", "p", "i", "s", "a", "n", "i", "e", ":", " ">>

country_lines(info, now) ==
    << LblName \o info.name,
       LblCapital \o info.capital \o <<" ", "(">> \o info.latitude
           \o <<",", " ">> \o info.longitude \o <<")">>,
       LblTime \o format_time(info, now).text,
       LblPopulation \o format_population(info) \o SfxPopulation,
       LblSubregion \o info.subregion,
       LblArea \o (IF info.area # <<>> THEN info.area \o SfxArea ELSE <<"-">>) >>

language_lines(info) ==
    [i \in 1..Len(info.languages) |->
        info.languages[i].name \o <<" ", "(">> \o info.languages[i].native_name \o <<")">>]

currency_lines(info) ==
    [i \in 1..Len(info.currency_rates) |->
        info.currency_rates[i][1] \o <<" ", "=", " ">>
        \o quantize_rate(info.currency_rates[i][2]) \o SfxRate]

weather_lines(info) ==
    << LblTemp \o info.weather.temp \o SfxTemp,
       LblWind \o info.weather.wind_speed \o SfxWind,
       LblVisibility \o info.weather.visibility \o SfxVisibility,
       LblDescription \o info.weather.description >>

(* tb.add_header('...') called without await: the coroutine object is       *)
(* created and dropped, its body never runs, the buffer is left as it was   *)
add_header_not_awaited(buf, text, size) == buf

render(info, now) ==
    LET size == DefaultTableSize
        b1 == add_header(<<>>, HdrCountry, size)
        b2 == add_section(b1, country_lines(info, now), size)
        b3 == add_header(b2, HdrLanguages, size)
        b4 == add_section(b3, language_lines(info), size)
        b5 == add_header(b4, HdrCurrencies, size)
        b6 == add_section(b5, currency_lines(info), size)
        b7 == add_header(b6, HdrWeather, size)
        b8 == add_section(b7, weather_lines(info), size)
        b9 == IF Len(info.news) > 0
              THEN add_section(add_header_not_awaited(b8, HdrNews, size),
                               info.news, size)
              ELSE b8
    IN  get_table(b9)

----------------------------------------------------------------------------
(* Records the Renderer specifications are given *)

MaxNews == 2

MaxLanguages == 2

SeqsUpTo(S, n) == UNION {[1..k -> S] : k \in 0..n}

TzEntry(sign, hh, mm) == <<"U", "T", "C", sign>> \o Fmt02(hh) \o <<":">> \o Fmt02(mm)

(* every whole-minute offset of less than 24 hours, in seconds *)
ZoneOffsets == {60 * m : m \in (1 - 24 * 60)..(24 * 60 - 1)}

TzEntries == {TzEntry(sign, hh, mm) : sign \in {"+", "-"}, hh \in 0..14, mm \in {0, 30, 45}}

Clocks == {4 * 1440 + 10, 5 * 1440 + 720, 5 * 1440 + 1430}

English == [name |-> <<"E", "n", "g", "l", "i", "s", "h">>,
            native_name |-> <<"E", "n", "g", "l", "i", "s", "h">>]

French == [name |-> <<"F", "r", "e", "n", "c", "h">>,
           native_name |-> <<"f", "r", "a", "n", "c", "a", "i", "s">>]

RateSeqs == { <<>>, << <<<<"C", "A", "D">>, 56789>> >>,
              << <<<<"U", "S", "D">>, 12345>>, <<<<"C", "A", "D">>, 56784>> >> }

ShortTitle == <<"S", "n", "o", "w", " ", "i", "n", " ", "O", "t", "t", "a", "w", "a">>

LongTitle == Join([i \in 1..13 |-> Word("t", 9) \o <<" ">>]) \o Word("t", 5)

Info(zone_found, zone_offset, entry, languages, rates, area, news) ==
    [ name |-> <<"C", "a", "n", "a", "d", "a">>,
      capital |-> <<"O", "t", "t", "a", "w", "a">>,
      latitude |-> <<"4", "5", ".", "4", "2">>,
      longitude |-> <<"-", "7", "5", ".", "7">>,
      subregion |-> <<"N", "o", "r", "t", "h", " ", "A", "m", "e", "r", "i", "c", "a">>,
      population |-> 38005238,
      area |-> area,
      zone_found |-> zone_found,
      zone_offset |-> zone_offset,
      timezones |-> <<entry>>,
      languages |-> languages,
      currency_rates |-> rates,
      weather |-> [ temp |-> <<"-", "3", ".", "5">>,
                    wind_speed |-> <<"4", ".", "1">>,
                    visibility |-> <<"1", "0", "0", "0", "0">>,
                    description |-> <<"s", "n", "o", "w">> ],
      news |-> news ]

SampleInfo == Info(FALSE, 0, TzEntry("-", 5, 0), <<English>>, <<>>, <<>>, <<>>)

TimeInfos ==
    {Info(TRUE, s, TzEntry("-", 5, 0), <<English>>, <<>>, <<>>, <<>>) : s \in ZoneOffsets}
    \cup {Info(FALSE, 0, e, <<English>>, <<>>, <<>>, <<>>) : e \in TzEntries}

RenderInfos ==
    { Info(found, -12600, TzEntry("-", 3, 30), languages, rates, area, news) :
        found \in BOOLEAN,
        languages \in SeqsUpTo({English, French}, MaxLanguages),
        rates \in RateSeqs,
        area \in {<<>>, <<"9", "9", "8", "4", "6", "7", "0", ".", "0">>},
        news \in SeqsUpTo({ShortTitle, LongTitle}, MaxNews) }

----------------------------------------------------------------------------
(* Texts the TableBuilder specification feeds to the builder *)

ShortText == <<"a", "b", " ", "c">>

WrappedText == Word("a", 9) \o <<" ">> \o Word("b", 9) \o <<" ">> \o Word("c", 3)

LongWordText == Word("a", 2) \o <<" ">> \o Word("b", 23)

Texts == {<<>>, <<" ", " ">>, ShortText, WrappedText, LongWordText}

SectionArgs == {<<>>} \cup {<<t>> : t \in Texts} \cup {<<ShortText, t>> : t \in Texts}

----------------------------------------------------------------------------
(* Specification of one TableBuilder *)

NewBuilder(sizes) ==
    /\ table_size \in sizes
    /\ table_lines = <<>>
    /\ last_op = "new"
    /\ last_args = <<>>
    /\ prev_lines = <<>>
    /\ returned = <<>>
    /\ prev_returned = <<>>
    /\ n_gets = "none"
    /\ n_adds = 0

NewRenderer(infos, clock) ==
    /\ location_info \in infos
    /\ now_utc \in clock
    /\ time_out = NoResult
    /\ rendered = <<>>

Init == NewBuilder(TableSizes) /\ NewRenderer({SampleInfo}, {0})

DoAddSection(lines) ==
    /\ table_lines' = add_section(table_lines, lines, table_size)
    /\ last_op' = "add_section"
    /\ last_args' = lines
    /\ prev_lines' = table_lines
    /\ returned' = <<>>
    /\ prev_returned' = <<>>
    /\ n_adds' = n_adds + 1
    /\ UNCHANGED <<table_size, n_gets, renderer_vars>>

DoAddHeader(text) ==
    /\ table_lines' = add_header(table_lines, text, table_size)
    /\ last_op' = "add_header"
    /\ last_args' = <<text>>
    /\ prev_lines' = table_lines
    /\ returned' = <<>>
    /\ prev_returned' = <<>>
    /\ n_adds' = n_adds + 1
    /\ UNCHANGED <<table_size, n_gets, renderer_vars>>

AddSection == \E lines \in SectionArgs : n_adds < MaxCalls /\ DoAddSection(lines)

AddHeader == \E text \in Texts : n_adds < MaxCalls /\ DoAddHeader(text)

GetTable ==
    /\ Len(table_lines) > 0
    /\ table_lines' = get_table(table_lines)
    /\ returned' = get_table(table_lines)
    /\ prev_returned' = returned
    /\ last_op' = "get_table"
    /\ last_args' = <<>>
    /\ prev_lines' = table_lines
    /\ n_gets' = IF n_gets = "none" THEN "one" ELSE "many"
    /\ UNCHANGED <<table_size, n_adds, renderer_vars>>

Next == AddSection \/ AddHeader \/ GetTable

Spec == Init /\ [][Next]_vars

----------------------------------------------------------------------------
(* Specification of the layout of one text: a fresh builder, one            *)
(* add_section or add_header call with a text of LayoutTexts, get_table.    *)

MaxWords == 3

WordLens == {1, 8, 9, 17, 19}

Letters == <<"a", "b", "c", "d", "e", "f">>

RECURSIVE JoinWords(_, _, _)
JoinWords(lens, gap, k) ==
    IF k > Len(lens) THEN <<>>
    ELSE (IF k > 1 THEN Rep(" ", gap) ELSE <<>>)
         \o Word(Letters[k], lens[k]) \o JoinWords(lens, gap, k + 1)

LayoutTexts ==
    {<<>>, <<" ">>} \cup
    { Rep(" ", lead) \o JoinWords(lens, gap, 1) \o Rep(" ", trail) :
        lens \in UNION {[1..n -> WordLens] : n \in 1..MaxWords},
        gap \in 1..2, lead \in 0..1, trail \in 0..1 }

LayoutSection == \E text \in LayoutTexts : last_op = "new" /\ DoAddSection(<<text>>)

LayoutHeader == \E text \in LayoutTexts : last_op = "new" /\ DoAddHeader(text)

NextLayout == LayoutSection \/ LayoutHeader \/ GetTable

SpecLayout == Init /\ [][NextLayout]_vars

----------------------------------------------------------------------------
(* Specification of Renderer._format_time *)

InitTime == NewBuilder({DefaultTableSize}) /\ NewRenderer(TimeInfos, Clocks)

FormatTime ==
    /\ time_out = NoResult
    /\ time_out' = format_time(location_info, now_utc)
    /\ UNCHANGED <<builder_vars, location_info, now_utc, rendered>>

NextTime == FormatTime

SpecTime == InitTime /\ [][NextTime]_vars

----------------------------------------------------------------------------
(* Specification of Renderer.render *)

InitRender == NewBuilder({DefaultTableSize}) /\ NewRenderer(RenderInfos, {5 * 1440 + 720})

Render ==
    /\ rendered = <<>>
    /\ rendered' = render(location_info, now_utc)
    /\ time_out' = format_time(location_info, now_utc)
    /\ UNCHANGED <<builder_vars, location_info, now_utc>>

NextRender == Render

SpecRender == InitRender /\ [][NextRender]_vars

----------------------------------------------------------------------------
(* Helpers of the properties *)

IsBorderLine(line) == line[1] # "VBAR"

Corners == {"TOP_L", "TOP_R", "BOT_L", "BOT_R"}

open_tline(size) == <<"TOP_L">> \o Rep("HBAR", size - 2) \o <<"TOP_R">>

close_tline(size) == <<"BOT_L">> \o Rep("HBAR", size - 2) \o <<"BOT_R">>

RECURSIVE WrappedCount(_, _)
WrappedCount(lines, size) ==
    IF lines = <<>> THEN 0
    ELSE Len(wrap(Head(lines), size - 4)) + WrappedCount(Tail(lines), size)

Growth == Len(table_lines) - Len(prev_lines)

----------------------------------------------------------------------------
(* C1: every line of the buffer, and every line get_table returns, is       *)
(* exactly table_size characters long, whatever texts were added (words     *)
(* longer than the content width, empty and blank texts included).          *)
C1_LineWidth ==
    /\ \A i \in 1..Len(table_lines) : Len(table_lines[i]) = table_size
    /\ \A i \in 1..Len(returned) : Len(returned[i]) = table_size

(* a returned table that holds a content line filled by a broken long word  *)
C1_Witness ==
    /\ last_op = "get_table"
    /\ \E i \in 1..Len(returned) :
          /\ returned[i][1] = "VBAR"
          /\ returned[i][table_size - 2] = "b"
          /\ i < Len(returned) /\ returned[i + 1][3] = "b"

(* C2: after adds followed by the first get_table, the first returned line  *)
(* is the open-corner border, the last is the close-corner border, and      *)
(* every border line strictly between them is the interior border.          *)
C2_Corners ==
    (last_op = "get_table" /\ n_gets = "one") =>
        /\ returned[1] = open_tline(table_size)
        /\ returned[Len(returned)] = close_tline(table_size)
        /\ \A i \in 2..(Len(returned) - 1) :
              IsBorderLine(returned[i]) => returned[i] = border_tline(table_size)

C2_Witness ==
    /\ last_op = "get_table" /\ n_gets = "one"
    /\ \E i \in 2..(Len(returned) - 1) : IsBorderLine(returned[i])
    /\ \E i \in 2..(Len(returned) - 1) : ~IsBorderLine(returned[i])

(* C8 as stated: every add_section call grows the buffer by exactly         *)
(* 2 + the sum of the wrapped-line counts of its lines, in any state.       *)
C8_GrowthAlwaysTwo ==
    last_op = "add_section" => Growth = 2 + WrappedCount(last_args, table_size)

(* C8 amended: add_section grows the buffer by the sum of the wrapped-line  *)
(* counts plus 2 when the buffer was empty and plus 1 when it was not; an   *)
(* empty list of lines adds a border pair to an empty buffer and a single   *)
(* border line to a non-empty one.                                          *)
C8_Growth ==
    last_op = "add_section" =>
        /\ Growth = (IF prev_lines = <<>> THEN 2 ELSE 1)
                    + WrappedCount(last_args, table_size)
        /\ last_args = <<>> =>
              table_lines = (IF prev_lines = <<>> THEN <<border_tline(table_size)>>
                                                  ELSE prev_lines)
                            \o <<border_tline(table_size)>>

C8_Witness ==
    /\ last_op = "add_section"
    /\ prev_lines # <<>>
    /\ Len(last_args) = 2
    /\ WrappedCount(last_args, table_size) > 2

(* C9 as stated: a second get_table with no add in between returns a table *)
(* that differs from the one the first call returned.                       *)
C9_SecondGetDiffers ==
    (last_op = "get_table" /\ prev_returned # <<>>) => returned # prev_returned

(* C9 amended: the corner rewrite is idempotent; a second get_table with no *)
(* add in between returns the same table as the first.                      *)
C9_SecondGetSame ==
    (last_op = "get_table" /\ prev_returned # <<>>) =>
        /\ returned = prev_returned
        /\ table_lines = prev_lines

C9_Witness ==
    /\ last_op = "get_table" /\ prev_returned # <<>>
    /\ Len(returned) > 3

(* C10: in any interleaving of add_section, add_header and get_table, a     *)
(* returned table has corner characters on its first and last line only,    *)
(* and no call modifies a line other than the first and the last.           *)
C10_CornersOnlyOutside ==
    /\ \A i \in 2..(Len(returned) - 1) :
          \A j \in 1..Len(returned[i]) : returned[i][j] \notin Corners
    /\ \A i \in 2..(Len(prev_lines) - 1) : table_lines[i] = prev_lines[i]

----------------------------------------------------------------------------
(* Helpers of the layout properties *)

RECURSIVE LStrip(_)
LStrip(s) == IF s # <<>> /\ Head(s) = " " THEN LStrip(Tail(s)) ELSE s

RECURSIVE RStrip(_)
RStrip(s) == IF s # <<>> /\ Last(s) = " " THEN RStrip(Front(s)) ELSE s

(* a content line without its borders and padding *)
ContentOf(line) == LStrip(RStrip(SubSeq(line, 2, Len(line) - 1)))

RECURSIVE JoinWithSpaces(_)
JoinWithSpaces(ss) ==
    IF ss = <<>> THEN <<>>
    ELSE IF Len(ss) = 1 THEN Head(ss)
    ELSE Head(ss) \o <<" ">> \o JoinWithSpaces(Tail(ss))

Words(s) == SelectSeq(SplitChunks(s), LAMBDA c : ~IsBlank(c))

(* the content lines of a buffer that holds one section or header *)
Emitted == SubSeq(table_lines, 2, Len(table_lines) - 1)

Reconstituted == Words(JoinWithSpaces([i \in 1..Len(Emitted) |-> ContentOf(Emitted[i])]))

content_width == table_size - 4

(* line is text centred between the borders with pads l and r *)
CentredWith(line, text, l, r) ==
    line = <<"VBAR">> \o Rep(" ", l) \o text \o Rep(" ", r) \o <<"VBAR">>

CentredPads(line, text) ==
    \E l \in 0..table_size : \E r \in {l, l + 1} :
        /\ l + r = table_size - 2 - Len(text)
        /\ CentredWith(line, text, l, r)

----------------------------------------------------------------------------
(* C4 as stated: for every text longer than the content width, the content  *)
(* lines add_section emits, stripped and joined with single spaces, give   *)
(* back the words of the text in order, none split, lost or duplicated.     *)
C4_WordsKeptAnyText ==
    (last_op = "add_section" /\ Len(last_args[1]) > content_width) =>
        Reconstituted = Words(last_args[1])

(* C4 amended: the same for every text longer than the content width whose  *)
(* words are each at most the content width long (and hyphen-free); a       *)
(* longer word is broken across lines.                                      *)
C4_WordsKept ==
    (/\ last_op = "add_section"
     /\ Len(last_args[1]) > content_width
     /\ \A k \in 1..Len(Words(last_args[1])) :
           Len(Words(last_args[1])[k]) <= content_width) =>
        Reconstituted = Words(last_args[1])

C4_Witness ==
    /\ last_op = "add_section"
    /\ Len(last_args[1]) > content_width
    /\ Len(Words(last_args[1])) = 3
    /\ \A k \in 1..3 : Len(Words(last_args[1])[k]) \in 8..content_width
    /\ Len(Emitted) = 3

(* C7 as stated: for a header text of length L <= table_size - 2, each      *)
(* centred line add_header emits holds the text between pads l and r with   *)
(* l + r = table_size - 2 - L and r - l in {0, 1}.                          *)
C7_CentredUpToWidthMinusTwo ==
    (last_op = "add_header" /\ Len(last_args[1]) <= table_size - 2) =>
        \A i \in 1..Len(Emitted) : CentredPads(Emitted[i], last_args[1])

(* C7 amended: for a header text of length 1 <= L <= table_size - 4 that    *)
(* does not end in whitespace, add_header emits exactly one content line,   *)
(* the text between pads l and r with l + r = table_size - 2 - L and        *)
(* r - l in {0, 1}.                                                         *)
C7_Centred ==
    (/\ last_op = "add_header"
     /\ Len(last_args[1]) \in 1..content_width
     /\ Last(last_args[1]) # " ") =>
        /\ Len(Emitted) = 1
        /\ CentredPads(Emitted[1], last_args[1])

C7_Witness ==
    /\ last_op = "add_header"
    /\ Len(last_args[1]) \in 1..content_width
    /\ Last(last_args[1]) # " "
    /\ (table_size - 2 - Len(last_args[1])) % 2 = 1
    /\ Len(Words(last_args[1])) = 2

----------------------------------------------------------------------------
(* Helpers of the Renderer properties *)

(* 'UTC' sign HH ':' MM for an offset of s seconds *)
OffsetString(s) ==
    <<"U", "T", "C">> \o <<IF s < 0 THEN "-" ELSE "+">>
    \o Fmt02(Abs(s) \div 3600) \o <<":">> \o Fmt02((Abs(s) % 3600) \div 60)

(* the signed offset, in minutes, that an entry 'UTC' sign HH ':' MM denotes *)
DenotedMinutes(entry) ==
    (IF entry[4] = "-" THEN -1 ELSE 1)
    * (60 * ParseDigits(SubSeq(entry, 5, 6)) + ParseDigits(SubSeq(entry, 8, 9)))

(* the content lines between each two consecutive border lines of a table *)
RECURSIVE Blocks(_, _)
Blocks(table, cur) ==
    IF table = <<>> THEN <<>>
    ELSE IF IsBorderLine(Head(table)) THEN <<cur>> \o Blocks(Tail(table), <<>>)
    ELSE Blocks(Tail(table), Append(cur, Head(table)))

HeaderBlock(text) == content_tlines(text, TRUE, DefaultTableSize)

SectionBlock(lines) == section_tlines(lines, DefaultTableSize)

ExpectedBlocks(info, now) ==
    << HeaderBlock(HdrCountry), SectionBlock(country_lines(info, now)),
       HeaderBlock(HdrLanguages), SectionBlock(language_lines(info)),
       HeaderBlock(HdrCurrencies), SectionBlock(currency_lines(info)),
       HeaderBlock(HdrWeather), SectionBlock(weather_lines(info)) >>
    \o (IF info.news # <<>> THEN <<HeaderBlock(HdrNews), SectionBlock(info.news)>>
                            ELSE <<>>)

----------------------------------------------------------------------------
(* C3: render emits the country, languages, currencies and weather blocks   *)
(* in order, each a centred header followed by its section, and, exactly    *)
(* when the news list is non-empty, a news block: the centred news header   *)
(* followed by a section with one entry per title.                          *)
C3_Blocks ==
    rendered # <<>> =>
        Blocks(Tail(rendered), <<>>) = ExpectedBlocks(location_info, now_utc)

(* C5: on the zone path the offset string is 'UTC', the sign of the offset, *)
(* and the zero-padded whole hours and remaining minutes of its magnitude.  *)
C5_ZoneOffsetString ==
    time_out.path = "zone" =>
        time_out.zone_utc_string = OffsetString(location_info.zone_offset)

(* C6: on the fallback path the offset string is the first timezone entry   *)
(* unchanged and the fixed offset of the local time is the signed offset    *)
(* the entry denotes.                                                       *)
C6_FallbackOffset ==
    time_out.path = "fallback" =>
        /\ time_out.zone_utc_string = location_info.timezones[1]
        /\ time_out.utcoffset = DenotedMinutes(location_info.timezones[1])

=============================================================================
